---------------------------- MODULE Spec2Model ----------------------------
(***************************************************************************)
(* Model of pkg/transferer: the export pipeline of Transferer.Export       *)
(* (reader workers, bounded chunk channel, single archive writer, the      *)
(* supervising goroutine and the collecting loop), the load checker        *)
(* (LoadChecker.updateStatus / checkMetricsLoad), ParseThresholdList and   *)
(* Transferer.Import.                                                      *)
(***************************************************************************)
EXTENDS Integers, Sequences, FiniteSets, TLC

(***************************************************************************)
(* Bounds of the model.                                                    *)
(***************************************************************************)
\* t.readWorkersCount of the modelled run
NumReaders == 2
\* number of ChunkMetas the pool yields before it is exhausted
PoolSize == 6
\* chunk contents have a length in 0..MaxContentLen
MaxContentLen == 2
\* thresholds and measured metric values lie in 0..MaxLoadValue
MaxLoadValue == 2
\* updateStatus is modelled until waitStatusCounter reaches
\* MaxWaitStatusInSequence + MaxOverrun
MaxOverrun == 2

(***************************************************************************)
(* Program constants.                                                      *)
(***************************************************************************)
\* const maxChunksInMem = 4
maxChunksInMem == 4
\* MaxWaitStatusInSequence int = 10
MaxWaitStatusInSequence == 10

Readers == 1..NumReaders
MetaIds == 1..PoolSize
ContentLens == 0..MaxContentLen

\* The content lengths of the chunks the sources return, per ChunkMeta: the
\* lengths 0..MaxContentLen in rotation, starting at any of them.
LenProfiles ==
    {[i \in MetaIds |-> (i + k) % (MaxContentLen + 1)] : k \in ContentLens}

\* dump.SourceType values other than UndefinedSource
SourceTypes == {"VictoriaMetrics", "ClickHouse"}

\* the source type of the i-th ChunkMeta of the pool: the pool interleaves
\* the chunks of the two backends
MetaSource(i) == IF i % 2 = 1 THEN "VictoriaMetrics" ELSE "ClickHouse"

\* LoadStatus values (load.go: iota order NONE, OK, WAIT, TERMINATE)
LoadStatusNone == "NONE"
LoadStatusOK == "OK"
LoadStatusWait == "WAIT"
LoadStatusTerminate == "TERMINATE"
LoadStatuses == {LoadStatusNone, LoadStatusOK, LoadStatusWait, LoadStatusTerminate}
\* the statuses updateStatus can publish
PublishedStatuses == {LoadStatusOK, LoadStatusWait, LoadStatusTerminate}

\* error values a worker can return; "nil" is success
ErrNil == "nil"
ErrCtx == "context canceled"
ErrTerminate == "got terminate load status"
ErrUnknownStatus == "unknown load status"
ErrReadNoSource == "failed to find source to read chunk"
ErrReadChunk == "failed to read chunk"
ErrCreate == "failed to create file"
ErrWriteNoSource == "failed to find source to write chunk"
ErrWriteHeader == "failed to write file header"
ErrWriteContent == "failed to write chunk content"
ErrMetafile == "failed to write metafile"

NoChunk == [meta |-> 0, source |-> "", size |-> 0]

\* what a reader iteration has observed, besides a load status: nothing yet,
\* or ctx.Done()
NotObserved == "none"
Cancelled == "cancelled"

VARIABLES
    sources,      \* t.sources, as the set of the configured source types
    lens,         \* len(c.Content) of the chunk ReadChunk returns, per ChunkMeta
    ctxDone,      \* ctx is cancelled
    poolNext,     \* the pool: index of the next ChunkMeta it yields
    taken,        \* history: how many times each ChunkMeta was yielded
    rpc,          \* reader goroutines: position
    rchunk,       \* reader goroutines: the chunk c read and not yet sent
    rres,         \* reader goroutines: value returned by readChunksFromSource,
                  \* held until it has been sent on errCh
    chunksCh,     \* buffer of the channel chunksCh
    chClosed,     \* chunksCh is closed
    readWG,       \* counter of the WaitGroup readWG
    spc,          \* the goroutine closing the channel: position
    wpc,          \* writer goroutine: position
    wres,         \* writer goroutine: value returned by writeChunksToFile,
                  \* held until it has been sent on errCh
    metaMax,      \* meta.MaxChunkSize of the writer's copy of meta
    archive,      \* the tar entries written so far
    archClosed,   \* the deferred tw.Close/gzw.Close/file.Close have run
    mainPc,       \* Export: position
    mainI,        \* Export: loop counter i of the collecting loop
    exportErr,    \* Export: the returned error
    received,     \* history: the values Export received from errCh
    robs          \* history: what the select and the status switch of the current
                  \* iteration of each reader observed

exportVars == <<sources, lens, ctxDone, poolNext, taken, rpc, rchunk, rres, chunksCh,
                chClosed, readWG, spc, wpc, wres, metaMax, archive, archClosed,
                mainPc, mainI, exportErr, received, robs>>

VARIABLES
    maxV,               \* ParseThresholdList: the parsed max load list
    criticalV,          \* ParseThresholdList: the parsed critical load list
    thresholds,         \* LoadChecker.thresholds
    latestStatus,       \* LoadChecker.latestStatus
    waitStatusCounter,  \* LoadChecker.waitStatusCounter
    lcPc,               \* NewLoadChecker and the status update goroutine: position
    lastFetched,        \* history: results of the getMetricCurrentValue calls of
                        \* the last updateStatus, in call order
    lastEval,           \* history: status returned by the last checkMetricsLoad
    evalWaits,          \* history: number of the latest consecutive cycles that
                        \* evaluated to WAIT
    pubWaits,           \* history: number of the latest consecutive cycles that
                        \* published WAIT
    prevCounter         \* history: waitStatusCounter before the last updateStatus

lcVars == <<maxV, criticalV, thresholds, latestStatus, waitStatusCounter, lcPc, lastFetched,
            lastEval, evalWaits, pubWaits, prevCounter>>

VARIABLES
    impArchive,     \* Import: the names of the tar entries of the dump, in order,
                    \* each name as the sequence of its slash-separated segments
    impPos,         \* Import: index of the entry the next tr.Next() returns
    impPc,          \* Import: position
    impErr,         \* Import: the returned error
    metafileExists, \* Import: the local metafileExists
    impFin,         \* Import: index into t.sources of the finalizing loop
    writeCalls,     \* history: the WriteChunk calls made, in call order
    finalizeCalls   \* history: the FinalizeWrites calls made, in call order

importVars == <<impArchive, impPos, impPc, impErr, metafileExists, impFin, writeCalls,
                finalizeCalls>>

VARIABLES
    maxLoad,        \* the max load list handed to ParseThresholdList
    criticalLoad,   \* the critical load list handed to ParseThresholdList
    parsePc,        \* the call of ParseThresholdList: position
    parseErr        \* the error ParseThresholdList returned

parseVars == <<maxLoad, criticalLoad, parsePc, parseErr>>

VARIABLES
    answers         \* history: the answers of the metrics endpoint to the fetches
                    \* of the last cycle read by TickOverHTTP, one per fetch
metricVars == <<answers>>

vars == <<exportVars, lcVars, importVars, parseVars, metricVars>>

(***************************************************************************)
(* Transferer.Export: state after the goroutines have been started.        *)
(***************************************************************************)
InitExportState ==
    /\ ctxDone = FALSE
    /\ poolNext = 1
    /\ taken = [i \in MetaIds |-> 0]
    /\ rpc = [r \in Readers |-> "select"]
    /\ rchunk = [r \in Readers |-> NoChunk]
    /\ rres = [r \in Readers |-> ErrNil]
    /\ chunksCh = <<>>
    /\ chClosed = FALSE
    /\ readWG = NumReaders
    /\ spc = "wait"
    /\ wpc = "open"
    /\ wres = ErrNil
    \* the Meta handed to Export has no MaxChunkSize yet (the zero value)
    /\ metaMax = 0
    /\ archive = <<>>
    /\ archClosed = FALSE
    /\ mainPc = "collect"
    /\ mainI = 0
    /\ exportErr = ErrNil
    /\ received = <<>>
    /\ robs = [r \in Readers |-> NotObserved]

\* the LoadChecker struct literal of NewLoadChecker
InitLCState ==
    /\ latestStatus = LoadStatusWait
    /\ waitStatusCounter = 0
    /\ lcPc = "new"
    /\ lastFetched = <<>>
    /\ lastEval = LoadStatusNone
    /\ evalWaits = 0
    /\ pubWaits = 0
    /\ prevCounter = 0
    /\ answers = <<>>

\* Import before the dump file is opened
InitImportState ==
    /\ impPos = 1
    /\ impPc = "open"
    /\ impErr = ErrNil
    /\ metafileExists = FALSE
    /\ impFin = 1
    /\ writeCalls = <<>>
    /\ finalizeCalls = <<>>

\* no dump to import and no threshold lists to parse
NoImportNoParse ==
    /\ impArchive = <<>>
    /\ InitImportState
    /\ maxLoad = <<>>
    /\ criticalLoad = <<>>
    /\ parsePc = "done"
    /\ parseErr = ErrNil

InitExport ==
    /\ NoImportNoParse
    /\ sources \in (SUBSET SourceTypes) \ {{}}
    /\ lens \in LenProfiles
    /\ InitExportState
    /\ maxV = <<>>
    /\ criticalV = <<>>
    /\ thresholds = <<>>
    /\ InitLCState

\* t.sourceByType(st): whether a configured source has the type st
sourceByType(st) == st \in sources

\* the collecting loop receiving all the values and returning the last error
CollectLast(err) ==
    /\ mainPc = "collect"
    /\ received' = Append(received, err)
    /\ exportErr' = IF err # ErrNil THEN err ELSE exportErr
    /\ mainI' = mainI + 1
    /\ mainPc' = IF mainI + 1 < NumReaders + 1 THEN "collect" ELSE "returned"

\* One receive of the collecting loop of Export: `if err := <-errCh; err != nil
\* { return err }`, then i++ and the loop test; after the last value `return nil`.
Collect(err) ==
    /\ mainPc = "collect"
    /\ received' = Append(received, err)
    /\ IF err # ErrNil
         THEN /\ mainPc' = "returned"
              /\ exportErr' = err
              /\ mainI' = mainI
         ELSE /\ mainI' = mainI + 1
              /\ mainPc' = IF mainI + 1 < NumReaders + 1 THEN "collect" ELSE "returned"
              /\ exportErr' = exportErr

\* readChunksFromSource returns err: the goroutine goes on to `errCh <- err`
ReaderReturn(r, err) ==
    /\ rres' = [rres EXCEPT ![r] = err]
    /\ rpc' = [rpc EXCEPT ![r] = "report"]

\* The select of the reading loop and the switch on lc.GetLatestStatus(); the
\* status getter may answer any status of Statuses. On WAIT the reader sleeps
\* for MaxLoadWaitDuration and starts the next iteration.
\* the reader going on to p.Next()
OnOK(r) ==
    /\ rpc' = [rpc EXCEPT ![r] = "next"]
    /\ rres' = rres

\* a reader treating WAIT like OK
OnWaitProceed(r) == OnOK(r)

\* case LoadStatusWait: time.Sleep(MaxLoadWaitDuration); continue
OnWait(r) == UNCHANGED <<rpc, rres>>

ReaderSelect(r, Statuses) ==
    /\ rpc[r] = "select"
    /\ \/ /\ ctxDone
          /\ robs' = [robs EXCEPT ![r] = Cancelled]
          /\ ReaderReturn(r, ErrCtx)
       \/ /\ ~ctxDone
          /\ \E s \in Statuses :
               /\ robs' = [robs EXCEPT ![r] = s]
               /\ CASE s = LoadStatusWait -> OnWait(r)
                    [] s = LoadStatusTerminate -> ReaderReturn(r, ErrTerminate)
                    [] s = LoadStatusOK -> OnOK(r)
                    [] OTHER -> ReaderReturn(r, ErrUnknownStatus)
    /\ UNCHANGED <<lcVars, importVars, parseVars, sources, lens, ctxDone, poolNext, taken,
                   rchunk, chunksCh, chClosed, readWG, spc, wpc, wres, metaMax, archive,
                   archClosed, mainPc, mainI, exportErr, received, metricVars>>

\* ChunkPool.Next(): the pool yields its next ChunkMeta, or reports exhaustion
PoolHasNext == poolNext <= PoolSize

PoolAdvance ==
    /\ poolNext' = poolNext + 1
    /\ taken' = [taken EXCEPT ![poolNext] = @ + 1]

\* a failed chunk skipped: the loop goes on with the next iteration
OnReadErrorContinue(r) ==
    /\ rpc' = [rpc EXCEPT ![r] = "select"]
    /\ rres' = rres

\* s.ReadChunk(chMeta) returned an error
OnReadError(r) == ReaderReturn(r, ErrReadChunk)

\* p.Next(), t.sourceByType(chMeta.Source) and s.ReadChunk(chMeta)
ReaderNext(r, faults) ==
    /\ rpc[r] = "next"
    /\ \/ /\ ~PoolHasNext
          /\ ReaderReturn(r, ErrNil)
          /\ UNCHANGED <<poolNext, taken, rchunk>>
       \/ /\ PoolHasNext
          /\ PoolAdvance
          /\ IF ~sourceByType(MetaSource(poolNext))
               THEN /\ ReaderReturn(r, ErrReadNoSource)
                    /\ rchunk' = rchunk
               ELSE \/ /\ faults
                       /\ OnReadError(r)
                       /\ rchunk' = rchunk
                    \/ /\ rchunk' = [rchunk EXCEPT ![r] =
                               [meta |-> poolNext, source |-> MetaSource(poolNext),
                                size |-> lens[poolNext]]]
                       /\ rpc' = [rpc EXCEPT ![r] = "send"]
                       /\ rres' = rres
    /\ UNCHANGED <<lcVars, importVars, parseVars, sources, lens, robs, ctxDone, chunksCh,
                   chClosed, readWG, spc, wpc, wres, metaMax, archive, archClosed, mainPc,
                   mainI, exportErr, received, metricVars>>

\* a channel whose buffer never is full
ChanUnbounded == TRUE

\* a channel with room for one more chunk than maxChunksInMem
ChanHasRoomForOneMore == Len(chunksCh) <= maxChunksInMem

\* a send on chunksCh = make(chan *dump.Chunk, maxChunksInMem) can proceed
ChanHasRoom == Len(chunksCh) < maxChunksInMem

\* chunkC <- c: blocks while the buffer is full
ReaderSend(r) ==
    /\ rpc[r] = "send"
    /\ ChanHasRoom
    /\ chunksCh' = Append(chunksCh, rchunk[r])
    /\ rchunk' = [rchunk EXCEPT ![r] = NoChunk]
    /\ rpc' = [rpc EXCEPT ![r] = "select"]
    /\ robs' = [robs EXCEPT ![r] = NotObserved]
    /\ UNCHANGED <<lcVars, importVars, parseVars, sources, lens, ctxDone, poolNext, taken,
                   rres, chClosed, readWG, spc, wpc, wres, metaMax, archive, archClosed,
                   mainPc, mainI, exportErr, received, metricVars>>

\* errCh <- t.readChunksFromSource(...): errCh is unbuffered, the send completes
\* together with a receive of the collecting loop
ReaderReport(r) ==
    /\ rpc[r] = "report"
    /\ Collect(rres[r])
    /\ rpc' = [rpc EXCEPT ![r] = "wgdone"]
    /\ rres' = [rres EXCEPT ![r] = ErrNil]
    /\ UNCHANGED <<lcVars, importVars, parseVars, sources, lens, robs, ctxDone, poolNext,
                   taken, rchunk, chunksCh, chClosed, readWG, spc, wpc, wres, metaMax,
                   archive, archClosed, metricVars>>

\* the goroutine exiting without readWG.Done()
ReaderDoneMissing(r) ==
    /\ rpc[r] = "wgdone"
    /\ rpc' = [rpc EXCEPT ![r] = "exit"]
    /\ UNCHANGED <<lcVars, importVars, parseVars, sources, lens, robs, ctxDone, poolNext,
                   taken, rchunk, rres, chunksCh, chClosed, readWG, spc, wpc, wres, metaMax,
                   archive, archClosed, mainPc, mainI, exportErr, received, metricVars>>

\* readWG.Done()
ReaderDone(r) ==
    /\ rpc[r] = "wgdone"
    /\ readWG' = readWG - 1
    /\ rpc' = [rpc EXCEPT ![r] = "exit"]
    /\ UNCHANGED <<lcVars, importVars, parseVars, sources, lens, robs, ctxDone, poolNext,
                   taken, rchunk, rres, chunksCh, chClosed, spc, wpc, wres, metaMax,
                   archive, archClosed, mainPc, mainI, exportErr, received, metricVars>>

\* a wait that returns as soon as one reader goroutine is done
WaitReturnsEarly == readWG < NumReaders

\* readWG.Wait() returns
WaitReturns == readWG = 0

\* readWG.Wait(); close(chunksCh)
CloseChunksCh ==
    /\ spc = "wait"
    /\ WaitReturns
    /\ chClosed' = TRUE
    /\ spc' = "exit"
    /\ UNCHANGED <<lcVars, importVars, parseVars, sources, lens, robs, ctxDone, poolNext,
                   taken, rpc, rchunk, rres, chunksCh, readWG, wpc, wres, metaMax, archive,
                   archClosed, mainPc, mainI, exportErr, received, metricVars>>

\* writeChunksToFile returns err after the archive has been opened: the
\* deferred tw.Close, gzw.Close and file.Close run
WriterReturn(err) ==
    /\ wres' = err
    /\ wpc' = "report"
    /\ archClosed' = TRUE

\* Opening the dump file (a piped run uses os.Stdout and cannot fail here)
WriterOpen(faults) ==
    /\ wpc = "open"
    /\ \/ /\ faults
          /\ wres' = ErrCreate
          /\ wpc' = "report"
       \/ /\ wpc' = "select"
          /\ wres' = wres
    /\ UNCHANGED <<lcVars, importVars, parseVars, sources, lens, robs, ctxDone, poolNext,
                   taken, rpc, rchunk, rres, chunksCh, chClosed, readWG, spc, metaMax,
                   archive, archClosed, mainPc, mainI, exportErr, received, metricVars>>

\* The select of the writing loop: ctx.Done() or the default branch
WriterSelect ==
    /\ wpc = "select"
    /\ IF ctxDone
         THEN WriterReturn(ErrCtx)
         ELSE /\ wpc' = "recv"
              /\ UNCHANGED <<wres, archClosed>>
    /\ UNCHANGED <<lcVars, importVars, parseVars, sources, lens, robs, ctxDone, poolNext,
                   taken, rpc, rchunk, rres, chunksCh, chClosed, readWG, spc, metaMax,
                   archive, mainPc, mainI, exportErr, received, metricVars>>

\* writeMetafile(tw, meta): one entry holding the serialized Meta
writeMetafile(arch, maxChunkSize) ==
    Append(arch, [kind |-> "meta", meta |-> 0, source |-> "", size |-> maxChunkSize])

\* the tar entry of chunk c: WriteHeader and Write
ChunkEntry(c) == [kind |-> "chunk", meta |-> c.meta, source |-> c.source, size |-> c.size]

\* the size of the last chunk instead of the maximum
UpdateLastChunkSize(cur, chunkSize) == chunkSize

\* the running maximum kept in meta.MaxChunkSize
UpdateMaxChunkSize(cur, chunkSize) == IF chunkSize > cur THEN chunkSize ELSE cur

\* c, ok := <-chunkC with ok: the chunk is written to the archive
WriterWriteChunk(faults) ==
    /\ wpc = "recv"
    /\ chunksCh # <<>>
    /\ chunksCh' = Tail(chunksCh)
    /\ LET c == Head(chunksCh) IN
         IF ~sourceByType(c.source)
           THEN /\ WriterReturn(ErrWriteNoSource)
                /\ UNCHANGED <<metaMax, archive>>
           ELSE /\ metaMax' = UpdateMaxChunkSize(metaMax, c.size)
                /\ \/ /\ faults
                      /\ WriterReturn(ErrWriteHeader)
                      /\ archive' = archive
                   \/ /\ faults
                      /\ WriterReturn(ErrWriteContent)
                      /\ archive' = Append(archive, [ChunkEntry(c) EXCEPT !.kind = "torn"])
                   \/ /\ archive' = Append(archive, ChunkEntry(c))
                      /\ wpc' = "select"
                      /\ UNCHANGED <<wres, archClosed>>
    /\ UNCHANGED <<lcVars, importVars, parseVars, sources, lens, robs, ctxDone, poolNext,
                   taken, rpc, rchunk, rres, chClosed, readWG, spc, mainPc, mainI,
                   exportErr, received, metricVars>>

\* the end of the chunks taken from the close alone
RecvClosedOnly == chClosed

\* c, ok := <-chunkC yields !ok: the channel is closed and its buffer drained
RecvNotOk == chunksCh = <<>> /\ chClosed

\* c, ok := <-chunkC with !ok: the metadata entry
WriterWriteMeta(faults) ==
    /\ wpc = "recv"
    /\ RecvNotOk
    /\ \/ /\ faults
          /\ WriterReturn(ErrMetafile)
          /\ archive' = archive
       \/ /\ archive' = writeMetafile(archive, metaMax)
          /\ WriterReturn(ErrNil)
    /\ UNCHANGED <<lcVars, importVars, parseVars, sources, lens, robs, ctxDone, poolNext,
                   taken, rpc, rchunk, rres, chunksCh, chClosed, readWG, spc, metaMax,
                   mainPc, mainI, exportErr, received, metricVars>>

\* errCh <- t.writeChunksToFile(...)
WriterReport ==
    /\ wpc = "report"
    /\ Collect(wres)
    /\ wpc' = "exit"
    /\ wres' = ErrNil
    /\ UNCHANGED <<lcVars, importVars, parseVars, sources, lens, robs, ctxDone, poolNext,
                   taken, rpc, rchunk, rres, chunksCh, chClosed, readWG, spc, metaMax,
                   archive, archClosed, metricVars>>

\* the caller cancels ctx
Cancel ==
    /\ ~ctxDone
    /\ ctxDone' = TRUE
    /\ UNCHANGED <<lcVars, importVars, parseVars, sources, lens, robs, poolNext, taken, rpc,
                   rchunk, rres, chunksCh, chClosed, readWG, spc, wpc, wres, metaMax,
                   archive, archClosed, mainPc, mainI, exportErr, received, metricVars>>

ReaderStep(r, Statuses, faults) ==
    \/ ReaderSelect(r, Statuses)
    \/ ReaderNext(r, faults)
    \/ ReaderSend(r)
    \/ ReaderReport(r)
    \/ ReaderDone(r)

WriterStep(faults) ==
    \/ WriterOpen(faults)
    \/ WriterSelect
    \/ WriterWriteChunk(faults)
    \/ WriterWriteMeta(faults)
    \/ WriterReport

(***************************************************************************)
(* Threshold model and LoadChecker (load.go).                              *)
(***************************************************************************)
ThresholdCPU == "CPU"
ThresholdRAM == "RAM"

\* AllThresholdKeys()
AllThresholdKeys == <<ThresholdCPU, ThresholdRAM>>

Loads == 0..MaxLoadValue

\* the result of parseThresholdValues: a map from some of the keys to values
ThresholdValues ==
    UNION {[K -> Loads] : K \in SUBSET {ThresholdCPU, ThresholdRAM}}

\* a Go map lookup `v, ok := m[k]`: the zero value when k is absent
MapGet(m, k) == IF k \in DOMAIN m THEN m[k] ELSE 0

\* ParseThresholdList, from the two parsed maps on: one Threshold per key of
\* AllThresholdKeys() present in at least one map
RECURSIVE ThresholdsFrom(_, _, _)
ThresholdsFrom(i, maxs, criticals) ==
    IF i > Len(AllThresholdKeys) THEN <<>>
    ELSE LET k == AllThresholdKeys[i] IN
         IF k \notin DOMAIN maxs /\ k \notin DOMAIN criticals
           THEN ThresholdsFrom(i + 1, maxs, criticals)
           ELSE <<[Key |-> k,
                   MaxLoad |-> MapGet(maxs, k),
                   CriticalLoad |-> MapGet(criticals, k)]>>
                \o ThresholdsFrom(i + 1, maxs, criticals)

ParseThresholdList(maxs, criticals) == ThresholdsFrom(1, maxs, criticals)

\* getMetricCurrentValue failed (network error, non-200 answer, parse error)
FetchErr == -1

\* case value >= t.CriticalLoad
CriticalTripped(value, t) == value >= t.CriticalLoad

\* the max load bound compared strictly
MaxTrippedStrict(value, t) == value > t.MaxLoad

\* case value >= t.MaxLoad
MaxTripped(value, t) == value >= t.MaxLoad

\* checkMetricsLoad from threshold i on, loadStatus being the status so far;
\* resp[i] is what getMetricCurrentValue answers for threshold i. The result
\* holds the returned status, whether an error is returned, and the number of
\* thresholds fetched.
RECURSIVE CheckFrom(_, _, _, _)
CheckFrom(ths, i, loadStatus, resp) ==
    IF i > Len(ths)
      THEN [status |-> loadStatus, err |-> FALSE, fetched |-> i - 1]
    ELSE IF resp[i] = FetchErr
      THEN [status |-> LoadStatusNone, err |-> TRUE, fetched |-> i]
    ELSE IF CriticalTripped(resp[i], ths[i])
      THEN [status |-> LoadStatusTerminate, err |-> FALSE, fetched |-> i]
    ELSE IF MaxTripped(resp[i], ths[i])
      THEN CheckFrom(ths, i + 1, LoadStatusWait, resp)
    ELSE CheckFrom(ths, i + 1, loadStatus, resp)

checkMetricsLoad(ths, resp) == CheckFrom(ths, 1, LoadStatusOK, resp)

\* a failed check taken as no load
StatusOnErrorOK == LoadStatusOK

\* updateStatus: the status taken when checkMetricsLoad returns an error
StatusOnError == LoadStatusWait

\* the escalation one cycle early
TooManyWaitsAtMax(counter) == counter >= MaxWaitStatusInSequence

\* updateStatus: c.waitStatusCounter > MaxWaitStatusInSequence
TooManyWaits(counter) == counter > MaxWaitStatusInSequence

\* the counter left as it is by a cycle that does not evaluate to WAIT
CounterKept(counter) == counter

\* updateStatus: the counter after a cycle whose status is not WAIT
CounterAfterNonWait(counter) == 0

\* c.updateStatus(), the metrics endpoint answering resp
updateStatus(resp) ==
    LET r == checkMetricsLoad(thresholds, resp)
        status == IF r.err THEN StatusOnError ELSE r.status
        counter == IF status = LoadStatusWait
                     THEN waitStatusCounter + 1
                     ELSE CounterAfterNonWait(waitStatusCounter)
        final == IF status = LoadStatusWait /\ TooManyWaits(counter)
                   THEN LoadStatusTerminate
                   ELSE status
    IN  /\ waitStatusCounter' = counter
        /\ latestStatus' = final
        /\ lastFetched' = SubSeq(resp, 1, r.fetched)
        /\ lastEval' = r.status
        /\ evalWaits' = IF status = LoadStatusWait THEN evalWaits + 1 ELSE 0
        /\ pubWaits' = IF final = LoadStatusWait THEN pubWaits + 1 ELSE 0
        /\ prevCounter' = waitStatusCounter

\* what the metrics endpoint can answer in one cycle, per threshold
Responses == [1..Len(thresholds) -> Loads \cup {FetchErr}]

\* NewLoadChecker returning without the synchronous lc.updateStatus()
NewLoadCheckerNoCheck ==
    /\ lcPc = "new"
    /\ lcPc' = IF Len(thresholds) # 0 THEN "ticking" ELSE "idle"
    /\ UNCHANGED <<maxV, criticalV, thresholds, latestStatus, waitStatusCounter,
                   lastFetched, lastEval, evalWaits, pubWaits, prevCounter, exportVars,
                   importVars, parseVars, metricVars>>

\* NewLoadChecker: the synchronous lc.updateStatus() and, with thresholds,
\* lc.runStatusUpdate(ctx)
NewLoadChecker ==
    /\ lcPc = "new"
    /\ \E resp \in Responses : updateStatus(resp)
    /\ lcPc' = IF Len(thresholds) # 0 THEN "ticking" ELSE "idle"
    /\ UNCHANGED <<maxV, criticalV, thresholds, exportVars, importVars, parseVars, metricVars>>

\* runStatusUpdate: case <-ticker.C
Tick ==
    /\ lcPc = "ticking"
    /\ waitStatusCounter < MaxWaitStatusInSequence + MaxOverrun
    /\ \E resp \in Responses : updateStatus(resp)
    /\ UNCHANGED <<maxV, criticalV, thresholds, lcPc, exportVars, importVars, parseVars,
                   metricVars>>

\* runStatusUpdate: case <-ctx.Done()
StopStatusUpdate ==
    /\ lcPc = "ticking"
    /\ ctxDone
    /\ lcPc' = "stopped"
    /\ UNCHANGED <<maxV, criticalV, thresholds, latestStatus, waitStatusCounter,
                   lastFetched, lastEval, evalWaits, pubWaits, prevCounter, exportVars,
                   importVars, parseVars, metricVars>>

\* c.GetLatestStatus()
GetLatestStatus == latestStatus

InitLC ==
    /\ NoImportNoParse
    /\ maxV \in ThresholdValues
    /\ criticalV \in ThresholdValues
    /\ thresholds = ParseThresholdList(maxV, criticalV)
    /\ InitLCState
    /\ sources = SourceTypes
    /\ lens = [i \in MetaIds |-> 0]
    /\ InitExportState

NextLC ==
    \/ NewLoadChecker
    \/ Tick
    \/ StopStatusUpdate
    \/ Cancel

SpecLC == InitLC /\ [][NextLC]_vars

(***************************************************************************)
(* ParseThresholdList on its two list strings (load.go).                   *)
(***************************************************************************)
\* the two lists together hold at most MaxPairs comma-separated pairs
MaxPairs == 3

ErrSyntax == "invalid syntax: must be K=V or K:V"
ErrUndefinedKey == "undefined key"
ErrParseNumber == "can't parse number"
ErrInvalidMax == "invalid max load list"
ErrInvalidCritical == "invalid critical load list"

\* the decimal numerals of 0..9
Numerals == <<"0", "1", "2", "3", "4", "5", "6", "7", "8", "9">>

\* The text between two commas, as the sequence of its pieces: words, numerals
\* and the characters "=" and ":". The well-formed pairs K=V and K:V ...
GoodPairs ==
    {<<k, sep, Numerals[v + 1]>> : k \in {ThresholdCPU, ThresholdRAM}, sep \in {"=", ":"},
                                   v \in 1..MaxLoadValue}
\* ... and pairs with an unknown key, without separator, with a value that is
\* not a number, and with both separators
BadPairs ==
    {<<"DISK", "=", "1">>, <<ThresholdCPU>>, <<ThresholdCPU, "=", "x">>,
     <<ThresholdRAM, "=", "1", ":", "2">>}
PairTexts == GoodPairs \cup BadPairs

\* a list string, as the sequence of its comma-separated pairs; the empty
\* sequence is the empty (or blank) string
ListsUpTo(n) == UNION {[1..k -> PairTexts] : k \in 0..n}

RECURSIVE SplitFrom(_, _, _, _)
\* strings.Split(p, separator): the pieces between the occurrences of the
\* separator, from position i on, cur being the piece under construction
SplitFrom(p, separator, i, cur) ==
    IF i > Len(p) THEN <<cur>>
    ELSE IF p[i] = separator
           THEN <<cur>> \o SplitFrom(p, separator, i + 1, <<>>)
           ELSE SplitFrom(p, separator, i + 1, Append(cur, p[i]))

stringsSplit(p, separator) == SplitFrom(p, separator, 1, <<>>)

\* strings.Contains(p, ":")
stringsContains(p, c) == \E i \in 1..Len(p) : p[i] = c

\* IsValidThresholdKey(v)
IsValidThresholdKey(v) ==
    \E i \in 1..Len(AllThresholdKeys) : v = <<AllThresholdKeys[i]>>

\* strconv.ParseFloat(v): succeeds on a text that is one numeral
ParsesAsFloat(v) == Len(v) = 1 /\ \E n \in 1..Len(Numerals) : Numerals[n] = v[1]
ParseFloat(v) == (CHOOSE n \in 1..Len(Numerals) : Numerals[n] = v[1]) - 1

\* a map assignment that keeps an entry already present
MapSetKeepFirst(res, k, v) == res @@ (k :> v)

\* res[k] = v
MapSet(res, k, v) == (k :> v) @@ res

RECURSIVE ParsePairsFrom(_, _, _)
\* the loop of parseThresholdValues over the pairs, from pair i on
ParsePairsFrom(pairs, i, res) ==
    IF i > Len(pairs) THEN [err |-> ErrNil, values |-> res]
    ELSE LET p == pairs[i]
             separator == IF stringsContains(p, ":") THEN ":" ELSE "="
             values == stringsSplit(p, separator)
         IN IF Len(values) # 2
              THEN [err |-> ErrSyntax, values |-> <<>>]
              ELSE IF ~IsValidThresholdKey(values[1])
                     THEN [err |-> ErrUndefinedKey, values |-> <<>>]
                     ELSE IF ~ParsesAsFloat(values[2])
                            THEN [err |-> ErrParseNumber, values |-> <<>>]
                            ELSE ParsePairsFrom(pairs, i + 1,
                                                MapSet(res, values[1][1], ParseFloat(values[2])))

\* parseThresholdValues(v): the nil map for the empty string
parseThresholdValues(v) ==
    IF v = <<>> THEN [err |-> ErrNil, values |-> <<>>]
    ELSE ParsePairsFrom(v, 1, <<>>)

\* ParseThresholdList(max, critical) on the two list strings
ParseLists(max, critical) ==
    LET m == parseThresholdValues(max)
        c == parseThresholdValues(critical)
    IN IF m.err # ErrNil
         THEN [err |-> <<ErrInvalidMax, m.err>>, maxV |-> <<>>, criticalV |-> <<>>,
               thresholds |-> <<>>]
         ELSE IF c.err # ErrNil
                THEN [err |-> <<ErrInvalidCritical, c.err>>, maxV |-> <<>>,
                      criticalV |-> <<>>, thresholds |-> <<>>]
                ELSE [err |-> ErrNil, maxV |-> m.values, criticalV |-> c.values,
                      thresholds |-> ParseThresholdList(m.values, c.values)]

\* the call ParseThresholdList(maxLoad, criticalLoad)
CallParseThresholdList ==
    /\ parsePc = "call"
    /\ LET r == ParseLists(maxLoad, criticalLoad)
       IN /\ parseErr' = r.err
          /\ maxV' = r.maxV
          /\ criticalV' = r.criticalV
          /\ thresholds' = r.thresholds
    /\ parsePc' = "done"
    /\ UNCHANGED <<maxLoad, criticalLoad, latestStatus, waitStatusCounter, lcPc,
                   lastFetched, lastEval, evalWaits, pubWaits, prevCounter, exportVars,
                   importVars, metricVars>>

InitParse ==
    /\ maxLoad \in ListsUpTo(MaxPairs)
    /\ criticalLoad \in ListsUpTo(MaxPairs - Len(maxLoad))
    /\ parsePc = "call"
    /\ parseErr = ErrNil
    /\ maxV = <<>>
    /\ criticalV = <<>>
    /\ thresholds = <<>>
    /\ InitLCState
    /\ sources = SourceTypes
    /\ lens = [i \in MetaIds |-> 0]
    /\ InitExportState
    /\ impArchive = <<>>
    /\ InitImportState

NextParse == CallParseThresholdList

SpecParse == InitParse /\ [][NextParse]_vars

(***************************************************************************)
(* The metrics endpoint and getMetricCurrentValue (load.go).               *)
(***************************************************************************)
\* result entries of one metrics response: 0..MaxResults
MaxResults == 2

\* http.StatusOK, and the other statuses the endpoint answers with
StatusOK == 200
OtherStatuses == {404, 500}

\* an element of a JSON array: a string or a number, with its text
JsonString(t) == [kind |-> "string", text |-> t]
JsonNumber(t) == [kind |-> "number", text |-> t]

\* the first element of a value array: the time of the sample
Timestamp == JsonNumber("0")

\* the texts of the lowest and the highest load
LoadTexts == {Numerals[1], Numerals[MaxLoadValue + 1]}

\* `value` of a result entry: [timestamp, "load"], and the arrays that are too
\* short, too long, hold a number or hold a text that is no number
ValueArrays ==
    {<<Timestamp, JsonString(t)>> : t \in LoadTexts}
      \cup {<<Timestamp>>,
            <<Timestamp, JsonString(Numerals[2]), JsonString(Numerals[2])>>,
            <<Timestamp, JsonNumber(Numerals[2])>>,
            <<Timestamp, JsonString("x")>>}

ResultLists == UNION {[1..n -> [Value : ValueArrays]] : n \in 0..MaxResults}

\* metricResponse after json.Unmarshal: Status and Data.Result. A response
\* whose status is not "success" comes without a result or with one sample.
MetricResponses ==
    [Status : {"success"}, Result : ResultLists]
      \cup {[Status |-> "error", Result |-> <<>>]}
      \cup {[Status |-> "error", Result |-> <<[Value |-> <<Timestamp, JsonString(t)>>]>>] :
              t \in LoadTexts}

NoResponse == [Status |-> "", Result |-> <<>>]

\* what c.c.Get and json.Unmarshal can give: a transport error, an answer
\* other than 200, a body that is no JSON of the expected type, or a response
HTTPAnswers ==
    {[err |-> TRUE, status |-> 0, json |-> FALSE, resp |-> NoResponse],
     [err |-> FALSE, status |-> StatusOK, json |-> FALSE, resp |-> NoResponse]}
      \cup {[err |-> FALSE, status |-> s, json |-> FALSE, resp |-> NoResponse] :
              s \in OtherStatuses}
      \cup {[err |-> FALSE, status |-> StatusOK, json |-> TRUE, resp |-> r] :
              r \in MetricResponses}

\* a result list that does not hold exactly one entry
ResultNotSingle(result) == Len(result) # 1

\* getValidValue: len(r.Data.Result) == 0
ResultEmpty(result) == Len(result) = 0

\* metricResponse.getValidValue(): the value, or FetchErr for an error
getValidValue(r) ==
    IF r.Status # "success" THEN FetchErr
    ELSE IF ResultEmpty(r.Result) THEN FetchErr
    ELSE LET Value == r.Result[1].Value IN
         IF Len(Value) # 2 THEN FetchErr
         ELSE IF Value[2].kind # "string" THEN FetchErr
         ELSE IF ~ParsesAsFloat(<<Value[2].text>>) THEN FetchErr
         ELSE ParseFloat(<<Value[2].text>>)

\* getMetricCurrentValue, the endpoint answering a
getMetricCurrentValue(a) ==
    IF a.err THEN FetchErr
    ELSE IF a.status # StatusOK THEN FetchErr
    ELSE IF ~a.json THEN FetchErr
    ELSE getValidValue(a.resp)

\* what the endpoint can answer in one cycle, per threshold
AnswerLists == [1..Len(thresholds) -> HTTPAnswers]

\* c.updateStatus(), the endpoint answering as: the answers to the fetches
\* made are kept in `answers`
updateStatusOverHTTP(as) ==
    LET resp == [i \in 1..Len(as) |-> getMetricCurrentValue(as[i])]
    IN  /\ updateStatus(resp)
        /\ answers' = SubSeq(as, 1, checkMetricsLoad(thresholds, resp).fetched)

\* NewLoadChecker, with the answers of the endpoint
NewLoadCheckerOverHTTP ==
    /\ lcPc = "new"
    /\ \E as \in AnswerLists : updateStatusOverHTTP(as)
    /\ lcPc' = IF Len(thresholds) # 0 THEN "ticking" ELSE "idle"
    /\ UNCHANGED <<maxV, criticalV, thresholds, exportVars, importVars, parseVars>>

\* runStatusUpdate: case <-ticker.C, with the answers of the endpoint
TickOverHTTP ==
    /\ lcPc = "ticking"
    /\ waitStatusCounter < MaxOverrun
    /\ \E as \in AnswerLists : updateStatusOverHTTP(as)
    /\ UNCHANGED <<maxV, criticalV, thresholds, lcPc, exportVars, importVars, parseVars>>

\* a load checker with the one threshold CPU, its critical load the highest
InitMetrics ==
    /\ NoImportNoParse
    /\ maxV \in [{ThresholdCPU} -> Loads]
    /\ criticalV = [k \in {ThresholdCPU} |-> MaxLoadValue]
    /\ thresholds = ParseThresholdList(maxV, criticalV)
    /\ InitLCState
    /\ sources = SourceTypes
    /\ lens = [i \in MetaIds |-> 0]
    /\ InitExportState

NextMetrics ==
    \/ NewLoadCheckerOverHTTP
    \/ TickOverHTTP

SpecMetrics == InitMetrics /\ [][NextMetrics]_vars

(***************************************************************************)
(* Transferer.Import (transferer.go).                                      *)
(***************************************************************************)
\* number of tar entries of the imported dump: 0..MaxEntries
MaxEntries == 3

ErrOpenFile == "failed to open file"
ErrGzip == "failed to open as gzip"
ErrReadDump == "failed to read file from dump"
ErrCorrupted == "corrupted dump: found undefined source"
ErrWriteChunk == "failed to write chunk"
ErrFinalize == "failed to finalize import"

\* dump.MetaFilename and dump.UndefinedSource
MetaFilename == "meta.json"
UndefinedSource == "undefined"

\* first path segments and file names of the entries of the modelled dumps
DirNames == SourceTypes \cup {"other"}
FileNames == {MetaFilename, "0.bin", "1.bin"}
\* header.Name of an entry, as the sequence of its slash-separated segments:
\* a bare file name, or a file name under one directory
EntryNames ==
    {<<f>> : f \in FileNames} \cup {<<d, f>> : d \in DirNames, f \in FileNames}
Dumps == UNION {[1..n -> EntryNames] : n \in 0..MaxEntries}

\* path.Split(name): the directory part (the segments before the last slash,
\* empty when the name has no slash) and the file name
pathSplit(name) ==
    [dir |-> SubSeq(name, 1, Len(name) - 1), filename |-> name[Len(name)]]

\* dump.ParseSourceType(s) for the directory s without its final slash
ParseSourceType(dir) ==
    IF Len(dir) = 1 /\ dir[1] \in SourceTypes THEN dir[1] ELSE UndefinedSource

\* t.sources in slice order
SourceOrder == <<"VictoriaMetrics", "ClickHouse">>
ConfiguredSources == SelectSeq(SourceOrder, sourceByType)

\* the finalizing loop visiting only the sources that were written to
WrittenSources ==
    SelectSeq(SourceOrder,
              LAMBDA s : sourceByType(s)
                         /\ \E j \in 1..Len(writeCalls) : writeCalls[j].source = s)

\* `for _, s := range t.sources`: the sources the finalizing loop visits
SourcesToFinalize == ConfiguredSources

\* Import returns err
ImportReturn(err) ==
    /\ impPc' = "returned"
    /\ impErr' = err

\* os.Open and gzip.NewReader
ImportOpen ==
    /\ impPc = "open"
    /\ \/ \E err \in {ErrOpenFile, ErrGzip} : ImportReturn(err)
       \/ impPc' = "next" /\ impErr' = impErr
    /\ UNCHANGED <<impArchive, impPos, metafileExists, impFin, writeCalls, finalizeCalls,
                   exportVars, lcVars, parseVars, metricVars>>

\* an entry of a type without a configured source aborting the import
OnNoSourceFail ==
    /\ ImportReturn(ErrCorrupted)
    /\ UNCHANGED <<impPos, writeCalls>>

\* `if !ok { log.Warn()...; continue }`
OnNoSource ==
    /\ impPos' = impPos + 1
    /\ UNCHANGED <<impPc, impErr, writeCalls>>

\* One iteration of the loop over the entries of the dump.
ImportEntry ==
    /\ impPc = "next"
    /\ impFin' = impFin
    /\ finalizeCalls' = finalizeCalls
    /\ IF impPos > Len(impArchive)
         THEN \* tr.Next() returns io.EOF: break
              /\ impPc' = "finalize"
              /\ UNCHANGED <<impPos, impErr, metafileExists, writeCalls>>
         ELSE \/ \* tr.Next() returns another error
                 /\ ImportReturn(ErrReadDump)
                 /\ UNCHANGED <<impPos, metafileExists, writeCalls>>
              \/ LET s == pathSplit(impArchive[impPos])
                     st == ParseSourceType(s.dir)
                 IN IF s.filename = MetaFilename
                      THEN /\ metafileExists' = TRUE
                           /\ impPos' = impPos + 1
                           /\ UNCHANGED <<impPc, impErr, writeCalls>>
                      ELSE /\ metafileExists' = metafileExists
                           /\ IF s.dir = <<>>
                                THEN \* dir[:len(dir)-1] with len(dir) = 0: the slice
                                     \* bounds are out of range and the goroutine panics
                                     /\ impPc' = "panic"
                                     /\ UNCHANGED <<impPos, impErr, writeCalls>>
                                ELSE IF st = UndefinedSource
                                       THEN /\ ImportReturn(ErrCorrupted)
                                            /\ UNCHANGED <<impPos, writeCalls>>
                                       ELSE IF ~sourceByType(st)
                                              THEN OnNoSource
                                              ELSE \* s.WriteChunk(filename, tr)
                                                   /\ writeCalls' =
                                                        Append(writeCalls,
                                                               [source |-> st,
                                                                filename |-> s.filename,
                                                                entry |-> impPos])
                                                   /\ \/ /\ ImportReturn(ErrWriteChunk)
                                                         /\ impPos' = impPos
                                                      \/ /\ impPos' = impPos + 1
                                                         /\ UNCHANGED <<impPc, impErr>>
    /\ UNCHANGED <<impArchive, exportVars, lcVars, parseVars, metricVars>>

\* One iteration of the loop calling FinalizeWrites, or the final `return nil`.
ImportFinalize ==
    /\ impPc = "finalize"
    /\ IF impFin > Len(SourcesToFinalize)
         THEN /\ ImportReturn(ErrNil)
              /\ UNCHANGED <<impFin, finalizeCalls>>
         ELSE \E ok \in BOOLEAN :
                /\ finalizeCalls' =
                     Append(finalizeCalls, [source |-> SourcesToFinalize[impFin], ok |-> ok])
                /\ IF ok
                     THEN /\ impFin' = impFin + 1
                          /\ UNCHANGED <<impPc, impErr>>
                     ELSE /\ ImportReturn(ErrFinalize)
                          /\ impFin' = impFin
    /\ UNCHANGED <<impArchive, impPos, metafileExists, writeCalls, exportVars, lcVars,
                   parseVars, metricVars>>

InitImport ==
    /\ impArchive \in Dumps
    /\ InitImportState
    /\ sources \in (SUBSET SourceTypes) \ {{}}
    /\ lens = [i \in MetaIds |-> 0]
    /\ InitExportState
    /\ maxV = <<>>
    /\ criticalV = <<>>
    /\ thresholds = <<>>
    /\ InitLCState
    /\ maxLoad = <<>>
    /\ criticalLoad = <<>>
    /\ parsePc = "done"
    /\ parseErr = ErrNil

NextImport ==
    \/ ImportOpen
    \/ ImportEntry
    \/ ImportFinalize

SpecImport == InitImport /\ [][NextImport]_vars

(***************************************************************************)
(* Export with any load status, adapter and archive errors, cancellation.  *)
(***************************************************************************)
NextExport ==
    \/ \E r \in Readers : ReaderStep(r, LoadStatuses, TRUE)
    \/ WriterStep(TRUE)
    \/ CloseChunksCh
    \/ Cancel

SpecExport == InitExport /\ [][NextExport]_vars

(***************************************************************************)
(* Export with every source configured; goroutines are scheduled fairly.   *)
(***************************************************************************)
\* (the content lengths play no part in the order of the steps: one profile)
InitExportConfigured ==
    /\ InitExport
    /\ sources = SourceTypes
    /\ lens = [i \in MetaIds |-> i % (MaxContentLen + 1)]

ExportFairness(Statuses, faults) ==
    /\ \A r \in Readers : WF_vars(ReaderStep(r, Statuses, faults))
    /\ WF_vars(WriterStep(faults))
    /\ WF_vars(CloseChunksCh)

\* the load status is always OK, no adapter or archive error, no cancellation
NextExportOK ==
    \/ \E r \in Readers : ReaderStep(r, {LoadStatusOK}, FALSE)
    \/ WriterStep(FALSE)
    \/ CloseChunksCh

FairExportOK ==
    /\ InitExportConfigured
    /\ [][NextExportOK]_vars
    /\ ExportFairness({LoadStatusOK}, FALSE)

\* any published load status, no adapter or archive error, no cancellation
NextExportLoad ==
    \/ \E r \in Readers : ReaderStep(r, PublishedStatuses, FALSE)
    \/ WriterStep(FALSE)
    \/ CloseChunksCh

FairExportLoad ==
    /\ InitExportConfigured
    /\ [][NextExportLoad]_vars
    /\ ExportFairness(PublishedStatuses, FALSE)

\* the load status is always OK, no adapter or archive error; the caller may
\* cancel ctx at any time
NextExportCancel ==
    \/ \E r \in Readers : ReaderStep(r, {LoadStatusOK}, FALSE)
    \/ WriterStep(FALSE)
    \/ CloseChunksCh
    \/ Cancel

FairExportCancel ==
    /\ InitExportConfigured
    /\ [][NextExportCancel]_vars
    /\ ExportFairness({LoadStatusOK}, FALSE)

\* the load status is always OK, adapters and the archive may fail, no
\* cancellation
NextExportFaults ==
    \/ \E r \in Readers : ReaderStep(r, {LoadStatusOK}, TRUE)
    \/ WriterStep(TRUE)
    \/ CloseChunksCh

SpecExportFaults == InitExportConfigured /\ [][NextExportFaults]_vars

Spec == SpecExport

(***************************************************************************)
(* Claims about Export.                                                    *)
(***************************************************************************)
\* the indexes of the archive entries of kind k for ChunkMeta i
EntriesOf(k, i) ==
    {j \in 1..Len(archive) : archive[j].kind = k /\ archive[j].meta = i}

ChunkEntries == {j \in 1..Len(archive) : archive[j].kind = "chunk"}
MetaEntries == {j \in 1..Len(archive) : archive[j].kind = "meta"}

\* where the chunk of ChunkMeta i is: held by a reader, queued, or in the archive
Holders(i) == {r \in Readers : rchunk[r].meta = i}
Queued(i) == {j \in 1..Len(chunksCh) : chunksCh[j].meta = i}

ExportReturned == mainPc = "returned"
ExportSucceeded == ExportReturned /\ exportErr = ErrNil

\* a yielded ChunkMeta whose chunk is nowhere: not held, not queued, not archived
Lost(i) ==
    /\ taken[i] = 1
    /\ Holders(i) = {} /\ Queued(i) = {}
    /\ EntriesOf("chunk", i) = {} /\ EntriesOf("torn", i) = {}

\* a worker has stopped with an error, delivered to Export or not yet
SomeWorkerFailed ==
    \/ \E r \in Readers : rres[r] # ErrNil
    \/ wres # ErrNil
    \/ exportErr # ErrNil

\* C1: every ChunkMeta the pool yielded was yielded once, its chunk is in one
\* place at most (a reader, the queue, the archive) and is written at most once;
\* a yielded ChunkMeta has no chunk anywhere only after a worker has failed;
\* when Export returns success every yielded ChunkMeta has exactly one chunk entry.
C1_ChunksExactlyOnce ==
    /\ \A i \in MetaIds :
         /\ taken[i] = IF i < poolNext THEN 1 ELSE 0
         /\ Cardinality(Holders(i)) + Cardinality(Queued(i))
              + Cardinality(EntriesOf("chunk", i)) + Cardinality(EntriesOf("torn", i)) <= 1
         /\ taken[i] = 0 => Holders(i) = {} /\ Queued(i) = {} /\ EntriesOf("chunk", i) = {}
         /\ Lost(i) => SomeWorkerFailed
    /\ ExportSucceeded =>
         \A i \in MetaIds : taken[i] = 1 => Cardinality(EntriesOf("chunk", i)) = 1

C1_Witness ==
    /\ ExportSucceeded
    /\ poolNext = PoolSize + 1
    /\ Cardinality(ChunkEntries) = PoolSize
    /\ \E j \in ChunkEntries : j + 1 \in ChunkEntries /\ archive[j].meta > archive[j + 1].meta

\* C2: the archive holds at most one metadata entry, which is its last entry; it
\* is written with the queue closed and drained; after a successful Export it
\* is there.
C2_MetaEntryLast ==
    /\ \A j \in MetaEntries : j = Len(archive)
    /\ MetaEntries # {} => chClosed /\ chunksCh = <<>> /\ wpc \in {"report", "exit"}
    /\ ExportSucceeded => Cardinality(MetaEntries) = 1

C2_Witness ==
    /\ ExportSucceeded
    /\ Len(archive) = PoolSize + 1
    /\ archive[Len(archive)].kind = "meta"

\* the first value of a sequence of results that is not success, or success
RECURSIVE FirstError(_)
FirstError(seq) ==
    IF seq = <<>> THEN ErrNil
    ELSE IF Head(seq) # ErrNil THEN Head(seq)
    ELSE FirstError(Tail(seq))

\* C3: Export returns success only after NumReaders + 1 success results, one
\* from every worker; once a worker's error has been received Export has returned,
\* and it returns the first error received.
C3_ExportResult ==
    /\ ExportSucceeded =>
         /\ Len(received) = NumReaders + 1
         /\ \A r \in Readers : rpc[r] \in {"wgdone", "exit"}
         /\ wpc = "exit"
    /\ FirstError(received) # ErrNil => ExportReturned
    /\ ExportReturned => exportErr = FirstError(received)
    /\ ~ExportReturned => exportErr = ErrNil

\* Export has returned an error while another worker holds an error of its own
C3_Witness ==
    /\ ExportReturned
    /\ exportErr = ErrTerminate
    /\ Len(received) = 2
    /\ wpc = "report" /\ wres = ErrWriteHeader

\* the complete archive: one chunk entry per ChunkMeta of the pool, then the
\* metadata entry
ArchiveComplete ==
    /\ Len(archive) = PoolSize + 1
    /\ \A i \in MetaIds : Cardinality(EntriesOf("chunk", i)) = 1
    /\ archive[Len(archive)].kind = "meta"
    /\ archClosed

ExportDone ==
    /\ ExportSucceeded
    /\ \A r \in Readers : rpc[r] = "exit"
    /\ wpc = "exit"
    /\ spc = "exit"
    /\ ArchiveComplete

\* C8: with the load status always OK and no error or cancellation, Export
\* eventually returns success with every worker stopped and the archive complete.
C8_ExportTerminates == <>[]ExportDone

C8_Witness == ExportDone /\ Len(received) = NumReaders + 1

Max2(a, b) == IF a >= b THEN a ELSE b

RECURSIVE MaxWritten(_)
\* the largest size among the chunk entries of the first n archive entries
MaxWritten(n) ==
    IF n = 0 THEN 0
    ELSE IF archive[n].kind = "chunk" THEN Max2(archive[n].size, MaxWritten(n - 1))
    ELSE MaxWritten(n - 1)

\* C9: the MaxChunkSize of the metadata entry is the largest content length
\* among the chunk entries of the archive.
C9_MaxChunkSize ==
    \A j \in MetaEntries : archive[j].size = MaxWritten(Len(archive))

\* the largest chunk was written before a smaller one
C9_Witness ==
    /\ MetaEntries # {}
    /\ \E j \in ChunkEntries :
         /\ j + 1 \in ChunkEntries
         /\ archive[j].size = MaxContentLen
         /\ archive[j + 1].size < MaxContentLen
         /\ \A k \in ChunkEntries : k > j + 1 => archive[k].size < MaxContentLen

\* a reader has observed TERMINATE
SawTerminate ==
    \/ \E r \in Readers : rpc[r] = "report" /\ rres[r] = ErrTerminate
    \/ \E j \in 1..Len(received) : received[j] = ErrTerminate

ArchiveFinished == MetaEntries # {} /\ archClosed

\* C10: after a reader has observed TERMINATE, once no goroutine can take a
\* step any more Export has returned an error and the writer has written the
\* metadata entry and closed the archive.
C10_TerminateLeavesArchiveFinished ==
    (SawTerminate /\ ~ENABLED NextExportLoad) =>
        (ExportReturned /\ exportErr # ErrNil /\ ArchiveFinished)

\* C10 as a temporal property of the fair runs
C10_TerminateLeadsToFinished ==
    SawTerminate ~> (ExportReturned /\ exportErr # ErrNil /\ ArchiveFinished)

\* C10, first part: a reader's TERMINATE always makes Export return an error
C10_TerminateLeadsToError ==
    SawTerminate ~> (ExportReturned /\ exportErr # ErrNil)


(***************************************************************************)
(* Claims about the load checker, checked under SpecLC.                    *)
(***************************************************************************)
\* a cycle has run and none of the fetches it made failed
LastCycleFetchedAll ==
    /\ lcPc # "new"
    /\ \A i \in 1..Len(lastFetched) : lastFetched[i] # FetchErr

\* the last cycle made a fetch that failed
LastCycleFetchFailed ==
    /\ lastFetched # <<>>
    /\ lastFetched[Len(lastFetched)] = FetchErr

\* C4: counting from a wait counter of zero, the k-th consecutive cycle that
\* evaluates to WAIT publishes WAIT for k = 1..10 and TERMINATE for k = 11, and
\* no more than 10 consecutive cycles publish WAIT.
C4_EleventhWaitTerminates ==
    /\ evalWaits \in 1..MaxWaitStatusInSequence =>
         latestStatus = LoadStatusWait /\ pubWaits = evalWaits
    /\ evalWaits = MaxWaitStatusInSequence + 1 => latestStatus = LoadStatusTerminate
    /\ pubWaits <= MaxWaitStatusInSequence

C4_Witness ==
    /\ evalWaits = MaxWaitStatusInSequence + 1
    /\ latestStatus = LoadStatusTerminate
    /\ prevCounter = MaxWaitStatusInSequence

\* C5: when no fetch of a cycle fails, checkMetricsLoad returns TERMINATE iff
\* some fetched value is >= its threshold's CriticalLoad, otherwise WAIT iff some
\* fetched value is >= its threshold's MaxLoad, otherwise OK; unless it returns
\* TERMINATE it has looked at every threshold.
C5_StatusEvaluation ==
    LastCycleFetchedAll =>
      LET n == Len(lastFetched)
          crit == \E i \in 1..n : lastFetched[i] >= thresholds[i].CriticalLoad
          max == \E i \in 1..n : lastFetched[i] >= thresholds[i].MaxLoad
      IN  /\ lastEval = LoadStatusTerminate <=> crit
          /\ lastEval = LoadStatusWait <=> (~crit /\ max)
          /\ lastEval = LoadStatusOK <=> (~crit /\ ~max)
          /\ ~crit => n = Len(thresholds)

\* the first threshold is met exactly at its MaxLoad (a WAIT candidate) and the
\* second exactly at its CriticalLoad: the result is TERMINATE
C5_Witness ==
    /\ LastCycleFetchedAll
    /\ Len(lastFetched) = 2
    /\ thresholds[1].MaxLoad > 0
    /\ lastFetched[1] = thresholds[1].MaxLoad
    /\ lastFetched[1] < thresholds[1].CriticalLoad
    /\ lastFetched[2] = thresholds[2].CriticalLoad
    /\ lastEval = LoadStatusTerminate

\* C6: a bound that was not given never trips: a TERMINATE evaluation comes from
\* a threshold whose critical bound was given, and a WAIT evaluation from at
\* least one threshold whose max bound was given and is reached.
C6_UnsetBoundNeverTrips ==
    LastCycleFetchedAll =>
      /\ lastEval = LoadStatusTerminate =>
           thresholds[Len(lastFetched)].Key \in DOMAIN criticalV
      /\ lastEval = LoadStatusWait =>
           \E i \in 1..Len(lastFetched) :
              /\ thresholds[i].Key \in DOMAIN maxV
              /\ lastFetched[i] >= thresholds[i].MaxLoad

\* C7: a cycle with a failed fetch publishes WAIT, or TERMINATE by escalation
\* only, adds one to the wait counter, and leaves the controller polling (until
\* the context is cancelled).
C7_FetchFailureIsWait ==
    LastCycleFetchFailed =>
      /\ lastEval = LoadStatusNone
      /\ latestStatus \in {LoadStatusWait, LoadStatusTerminate}
      /\ latestStatus = LoadStatusTerminate =>
           waitStatusCounter > MaxWaitStatusInSequence
      /\ waitStatusCounter = prevCounter + 1
      /\ evalWaits >= 1
      /\ lcPc = "ticking" \/ (lcPc = "stopped" /\ ctxDone)

\* the second threshold's fetch fails in a cycle that follows a WAIT cycle
C7_Witness ==
    /\ LastCycleFetchFailed
    /\ Len(lastFetched) = 2
    /\ latestStatus = LoadStatusWait
    /\ waitStatusCounter = 2
    /\ lcPc = "ticking"

(***************************************************************************)
(* Claims about Import, checked under SpecImport.                          *)
(***************************************************************************)
ImportReturned == impPc = "returned"
ImportSucceeded == ImportReturned /\ impErr = ErrNil

EntryIdx == 1..Len(impArchive)
IsMetaEntry(j) == impArchive[j][Len(impArchive[j])] = MetaFilename
\* the entries <type>/<filename> of a known type, other than metadata entries
TypedEntries ==
    {j \in EntryIdx : /\ ~IsMetaEntry(j)
                      /\ Len(impArchive[j]) = 2
                      /\ impArchive[j][1] \in SourceTypes}
\* ... whose type has a configured source, and those whose type has none
ConfiguredEntries == {j \in TypedEntries : impArchive[j][1] \in sources}
UnconfiguredEntries == {j \in TypedEntries : impArchive[j][1] \notin sources}
\* the entries that are neither metadata entries nor under a known type
UnknownEntries == {j \in EntryIdx : ~IsMetaEntry(j) /\ j \notin TypedEntries}

WriteIdx == 1..Len(writeCalls)
FinalizeIdx == 1..Len(finalizeCalls)
WritesOfEntry(j) == {k \in WriteIdx : writeCalls[k].entry = j}
FinalizesOf(s) == {k \in FinalizeIdx : finalizeCalls[k].source = s}

\* C11: when Import has returned nil, every entry of a configured type got
\* exactly one WriteChunk call, on the source of its type and with its file
\* name, the calls were made in archive order and no other call was made, and
\* every configured source got exactly one FinalizeWrites call. Always, a
\* FinalizeWrites call is made only once every entry has been processed (so
\* no WriteChunk follows it), and a failed FinalizeWrites makes Import return
\* the finalize error.
C11_ImportWritesThenFinalizes ==
    /\ ImportSucceeded =>
         /\ \A j \in ConfiguredEntries :
              /\ Cardinality(WritesOfEntry(j)) = 1
              /\ \A k \in WritesOfEntry(j) :
                   /\ writeCalls[k].source = impArchive[j][1]
                   /\ writeCalls[k].filename = impArchive[j][2]
         /\ \A k \in WriteIdx : writeCalls[k].entry \in ConfiguredEntries
         /\ \A k1, k2 \in WriteIdx :
              k1 < k2 => writeCalls[k1].entry < writeCalls[k2].entry
         /\ \A s \in sources : Cardinality(FinalizesOf(s)) = 1
         /\ \A k \in FinalizeIdx : finalizeCalls[k].source \in sources
    /\ finalizeCalls # <<>> =>
         /\ impPc \in {"finalize", "returned"}
         /\ impPos = Len(impArchive) + 1
         /\ \A j \in ConfiguredEntries : WritesOfEntry(j) # {}
    /\ (\E k \in FinalizeIdx : ~finalizeCalls[k].ok) =>
         (ImportReturned /\ impErr = ErrFinalize)

\* a dump with an entry of each type was imported into both sources
C11_Witness ==
    /\ ImportSucceeded
    /\ sources = SourceTypes
    /\ \A s \in SourceTypes : \E k \in WriteIdx : writeCalls[k].source = s
    /\ Len(finalizeCalls) = 2

\* the entries Import has gone through: those before impPos, and the entry at
\* impPos when its WriteChunk call failed
Attempted ==
    SubSeq(impArchive, 1, IF impErr = ErrWriteChunk THEN impPos ELSE impPos - 1)

IsUnconfiguredName(n) ==
    /\ n[Len(n)] # MetaFilename
    /\ Len(n) = 2
    /\ n[1] \in SourceTypes \ sources

RECURSIVE NamesWritten(_)
\* the WriteChunk calls (source, file name) of a dump without unconfigured
\* types, one per entry that is not a metadata entry
NamesWritten(seq) ==
    IF seq = <<>> THEN <<>>
    ELSE LET n == Head(seq)
         IN IF n[Len(n)] = MetaFilename
              THEN NamesWritten(Tail(seq))
              ELSE <<[source |-> n[1], filename |-> n[2]]>> \o NamesWritten(Tail(seq))

\* C12: an entry of a known type without a configured source gets no
\* WriteChunk call and never is the entry at which Import stops with the
\* corrupted-dump or the write error; the WriteChunk calls made are those of
\* the entries gone through with the unconfigured entries removed, and a
\* dump whose other entries are fine is imported successfully.
C12_UnconfiguredEntriesSkipped ==
    /\ \A k \in WriteIdx : writeCalls[k].entry \notin UnconfiguredEntries
    /\ (ImportReturned /\ impErr \in {ErrCorrupted, ErrWriteChunk}) =>
         impPos \notin UnconfiguredEntries
    /\ impPc # "panic" =>
         [k \in WriteIdx |-> [source |-> writeCalls[k].source,
                              filename |-> writeCalls[k].filename]]
           = NamesWritten(SelectSeq(Attempted, LAMBDA n : ~IsUnconfiguredName(n)))

\* an unconfigured entry lies between two imported entries of a successful Import
C12_Witness ==
    /\ ImportSucceeded
    /\ \E j \in UnconfiguredEntries :
         /\ \E k \in WriteIdx : writeCalls[k].entry < j
         /\ \E k \in WriteIdx : writeCalls[k].entry > j

\* C13: once Import has read (without a read error) an entry that is neither
\* a metadata entry nor under the directory of a known type, it has returned
\* the corrupted-dump error, has written no later entry and has finalized
\* no source; Import never goes past such an entry.
C13_UnknownEntryIsCorrupted ==
    /\ \A j \in UnknownEntries : impPos <= j
    /\ (/\ impPos \in UnknownEntries
        /\ impPc \notin {"open", "next"}
        /\ impErr \notin {ErrOpenFile, ErrGzip, ErrReadDump}) =>
         /\ ImportReturned
         /\ impErr = ErrCorrupted
         /\ finalizeCalls = <<>>
         /\ \A k \in WriteIdx : writeCalls[k].entry < impPos

(***************************************************************************)
(* Claims about ParseThresholdList, checked under SpecParse.               *)
(***************************************************************************)
ParsedOK == parsePc = "done" /\ parseErr = ErrNil

\* the positions of the pairs of a list that give the key k
GivenIdx(list, k) == {i \in 1..Len(list) : list[i][1] = k}
\* the number written as the value of the i-th pair
GivenValue(list, i) == CHOOSE n \in 0..9 : Numerals[n + 1] = list[i][3]
GivenValues(list, k) == {GivenValue(list, i) : i \in GivenIdx(list, k)}
\* the value of the last pair giving k, zero when no pair gives it
LastGiven(list, k) ==
    IF GivenIdx(list, k) = {} THEN 0
    ELSE GivenValue(list, CHOOSE i \in GivenIdx(list, k) :
                            \A j \in GivenIdx(list, k) : j <= i)

\* the keys given in at least one of the two lists, in the order CPU, RAM
KeysGiven ==
    SelectSeq(<<"CPU", "RAM">>,
              LAMBDA k : GivenIdx(maxLoad, k) \cup GivenIdx(criticalLoad, k) # {})

NoKeyRepeated(list) ==
    \A i, j \in 1..Len(list) : list[i][1] = list[j][1] => i = j

\* the lists with the same pairs in any order
Reorderings(list) ==
    {[i \in 1..Len(list) |-> list[f[i]]] : f \in Permutations(1..Len(list))}

\* C14 (as amended): a successful ParseThresholdList returns one Threshold
\* per key given in at least one list, in the order CPU, RAM, whose MaxLoad
\* and CriticalLoad are the value of the last pair giving the key in the
\* respective list, zero when the list does not give the key; when no list
\* repeats a key, the result is the same for every order of the pairs.
C14_ParseLastValueWins ==
    ParsedOK =>
      /\ thresholds = [i \in 1..Len(KeysGiven) |->
                         [Key |-> KeysGiven[i],
                          MaxLoad |-> LastGiven(maxLoad, KeysGiven[i]),
                          CriticalLoad |-> LastGiven(criticalLoad, KeysGiven[i])]]
      /\ (NoKeyRepeated(maxLoad) /\ NoKeyRepeated(criticalLoad)) =>
           \A p \in Reorderings(maxLoad), q \in Reorderings(criticalLoad) :
             LET r == ParseLists(p, q)
             IN r.err = ErrNil /\ r.thresholds = thresholds

\* a critical list alone gave a Threshold with MaxLoad 0, and a max list
\* repeating a key with two values was parsed
C14_Witness ==
    /\ ParsedOK
    /\ \E i \in 1..Len(thresholds) :
         /\ GivenIdx(maxLoad, thresholds[i].Key) = {}
         /\ thresholds[i].MaxLoad = 0
         /\ thresholds[i].CriticalLoad > 0
    /\ \E k \in {"CPU", "RAM"} : Cardinality(GivenValues(maxLoad, k)) = 2

\* C14 (as stated): a successful ParseThresholdList returns one Threshold
\* per key given in at least one list, in the order CPU, RAM, with the values
\* given for the key and zero for a bound not given, and the result is the
\* same for every order of the pairs of the two lists.
C14_ParseOrderIndependent ==
    ParsedOK =>
      /\ Len(thresholds) = Len(KeysGiven)
      /\ \A i \in 1..Len(thresholds) :
           LET k == KeysGiven[i]
           IN /\ thresholds[i].Key = k
              /\ thresholds[i].MaxLoad \in
                   (IF GivenIdx(maxLoad, k) = {} THEN {0} ELSE GivenValues(maxLoad, k))
              /\ thresholds[i].CriticalLoad \in
                   (IF GivenIdx(criticalLoad, k) = {} THEN {0}
                    ELSE GivenValues(criticalLoad, k))
      /\ \A p \in Reorderings(maxLoad), q \in Reorderings(criticalLoad) :
           LET r == ParseLists(p, q)
           IN r.err = ErrNil /\ r.thresholds = thresholds

(***************************************************************************)
(* Claims about the wait counter and the published status (SpecLC).        *)
(***************************************************************************)
\* the last cycle evaluated to WAIT, by its thresholds or by a failed check
LastCycleEvaluatedWait == LastCycleFetchFailed \/ lastEval = LoadStatusWait
\* the last cycle published TERMINATE by escalation
LastCycleEscalated == LastCycleEvaluatedWait /\ latestStatus = LoadStatusTerminate

\* C15 (as amended): after every cycle the wait counter is the number of the
\* most recent consecutive cycles that evaluated to WAIT (a failed check
\* included), whether they published WAIT or were escalated: a cycle that
\* evaluates to OK or to a critical TERMINATE leaves it at zero, a cycle
\* publishing WAIT leaves it at the number of the most recent consecutive
\* published WAITs, and an escalated cycle leaves it above
\* MaxWaitStatusInSequence.
C15_CounterCountsEvaluatedWaits ==
    lcPc # "new" =>
      /\ waitStatusCounter = evalWaits
      /\ ~LastCycleEvaluatedWait => waitStatusCounter = 0
      /\ latestStatus = LoadStatusWait => waitStatusCounter = pubWaits
      /\ LastCycleEscalated => waitStatusCounter > MaxWaitStatusInSequence

\* two escalated cycles in a row
C15_Witness ==
    /\ lcPc = "ticking"
    /\ LastCycleEscalated
    /\ prevCounter = MaxWaitStatusInSequence + 1
    /\ waitStatusCounter = MaxWaitStatusInSequence + 2

\* C15 (as stated): after every cycle the wait counter is the number of the
\* most recent consecutive cycles that published WAIT; a cycle publishing OK
\* or TERMINATE, escalation included, leaves it at zero.
C15_CounterCountsPublishedWaits ==
    lcPc # "new" =>
      /\ waitStatusCounter = pubWaits
      /\ latestStatus # LoadStatusWait => waitStatusCounter = 0

\* the status a completed cycle publishes, from what it evaluated to
LastCycleOutcome ==
    IF LastCycleEvaluatedWait
      THEN IF waitStatusCounter > MaxWaitStatusInSequence
             THEN LoadStatusTerminate ELSE LoadStatusWait
      ELSE lastEval

\* C16: GetLatestStatus always answers OK, WAIT or TERMINATE; it answers WAIT
\* while NewLoadChecker has not made its check, and once NewLoadChecker has
\* returned a check has completed and the answer is the outcome of the last
\* completed check.
C16_PublishedStatusNeverNone ==
    /\ GetLatestStatus \in {LoadStatusOK, LoadStatusWait, LoadStatusTerminate}
    /\ lcPc = "new" => GetLatestStatus = LoadStatusWait
    /\ lcPc # "new" =>
         /\ lastEval # LoadStatusNone \/ LastCycleFetchFailed
         /\ GetLatestStatus = LastCycleOutcome

\* NewLoadChecker has just returned and its check replaced WAIT by OK
C16_Witness ==
    /\ lcPc = "ticking"
    /\ lastFetched # <<>>
    /\ prevCounter = 0
    /\ GetLatestStatus = LoadStatusOK

(***************************************************************************)
(* Claims about the reader loop and the chunk channel (SpecExport).        *)
(***************************************************************************)
ReaderStopped(r) == rpc[r] \in {"report", "wgdone", "exit"}

\* the step is the select and status switch of an iteration of reader r
ObservingStep(r) ==
    /\ rpc[r] = "select"
    /\ robs'[r] # NotObserved
    /\ robs'[r] # robs[r] \/ rpc'[r] # rpc[r]

\* the error a reader returns on what it observed
StopError(obs) ==
    CASE obs = Cancelled -> ErrCtx
      [] obs = LoadStatusTerminate -> ErrTerminate
      [] obs = LoadStatusNone -> ErrUnknownStatus
      [] OTHER -> ErrNil

\* C17: a reader is at p.Next() or holds a chunk to send only in an iteration
\* that observed OK without cancellation, and only such a reader takes a
\* ChunkMeta from the pool or pushes a chunk; the select and status switch of
\* an iteration never touch the pool or the channel: on WAIT the reader stays
\* at the head of the loop, on OK (ctx not done) it goes on to p.Next(), and
\* on TERMINATE, an unknown status or cancellation it returns the matching
\* error.
C17_PullOnlyAfterOK ==
    /\ [](\A r \in Readers :
            /\ rpc[r] \in {"next", "send"} => robs[r] = LoadStatusOK
            /\ robs[r] = LoadStatusWait => rpc[r] = "select"
            /\ robs[r] \in {LoadStatusTerminate, LoadStatusNone, Cancelled} =>
                 ReaderStopped(r))
    /\ [][/\ \A r \in Readers :
               ObservingStep(r) =>
                 /\ UNCHANGED <<poolNext, taken, chunksCh, rchunk>>
                 /\ (robs'[r] = Cancelled) = ctxDone
                 /\ robs'[r] = LoadStatusWait => rpc'[r] = "select"
                 /\ robs'[r] = LoadStatusOK => rpc'[r] = "next"
                 /\ robs'[r] \in {LoadStatusTerminate, LoadStatusNone, Cancelled} =>
                      (rpc'[r] = "report" /\ rres'[r] = StopError(robs'[r]))
          /\ poolNext' # poolNext =>
               \E r \in Readers :
                 rpc[r] = "next" /\ robs[r] = LoadStatusOK /\ rpc'[r] # "next"
          /\ Len(chunksCh') > Len(chunksCh) =>
               \E r \in Readers :
                 rpc[r] = "send" /\ robs[r] = LoadStatusOK /\ rpc'[r] = "select"
       ]_vars

\* after chunks were taken from the pool, one reader has stopped on TERMINATE
\* and the other one is waiting
C17_Witness ==
    /\ poolNext > 2
    /\ \E r1, r2 \in Readers :
         /\ robs[r1] = LoadStatusTerminate /\ rpc[r1] = "report"
         /\ robs[r2] = LoadStatusWait /\ rpc[r2] = "select"

\* C19: the channel is closed only by the closing goroutine, once, and only
\* when every reader goroutine has finished; nothing is pushed onto the closed
\* channel; the writer gets the closed-channel answer (and goes on to the
\* metafile) only when the channel is closed and empty and no reader holds a
\* chunk, that is after it has popped every chunk that was pushed.
C19_CloseAfterReaders ==
    /\ [](/\ chClosed => (readWG = 0 /\ \A r \in Readers : rpc[r] = "exit")
          /\ chClosed = (spc = "exit"))
    /\ [][/\ chClosed' # chClosed => (~chClosed /\ spc = "wait" /\ spc' = "exit")
          /\ chClosed => (chunksCh' = chunksCh \/ chunksCh' = Tail(chunksCh))
          /\ (wpc = "recv" /\ wpc' = "report" /\ wres' \in {ErrNil, ErrMetafile}) =>
               /\ chClosed
               /\ chunksCh = <<>>
               /\ \A r \in Readers : rchunk[r] = NoChunk
       ]_vars

\* the channel has been closed while the writer still has chunks to pop
C19_Witness ==
    /\ chClosed
    /\ wpc = "recv"
    /\ Len(chunksCh) >= 2

(***************************************************************************)
(* Claims about cancellation and about failing workers.                    *)
(***************************************************************************)
WriterStopped == wpc \in {"report", "exit"}

\* C18: under fair scheduling, once ctx is cancelled every reader returns
\* from readChunksFromSource and the writer returns from writeChunksToFile.
C18_CancelStopsWorkers ==
    ctxDone ~> ((\A r \in Readers : ReaderStopped(r)) /\ WriterStopped)

\* reader r is at `chunkC <- c` with a full buffer after the writer returned
StuckReader(r) ==
    /\ rpc[r] = "send"
    /\ Len(chunksCh) = maxChunksInMem
    /\ WriterStopped

\* the writer is at `<-chunkC` with an empty buffer, Export has returned the
\* error of a reader, and the result of another reader goroutine is never
\* received, so that readWG never reaches zero and the channel stays open
StuckWriter ==
    /\ wpc = "recv"
    /\ chunksCh = <<>>
    /\ ~chClosed
    /\ mainPc = "returned"
    /\ exportErr \in {ErrReadChunk, ErrReadNoSource}
    /\ \A r \in Readers : ReaderStopped(r)
    /\ \E r \in Readers : rpc[r] = "report"

\* C20: without cancellation, a reader at its send with a full buffer after
\* the writer has returned stays there forever with the buffer unchanged, and
\* a writer at its receive on the empty open channel, after Export returned
\* a reader's error with a reader goroutine left at its errCh send, stays
\* there forever; nothing cancels ctx on a worker's failure.
C20_FailureStallsSiblings ==
    [][/\ \A r \in Readers :
            StuckReader(r) => (StuckReader(r)' /\ chunksCh' = chunksCh)
       /\ StuckWriter => StuckWriter'
       /\ ctxDone' = ctxDone
      ]_vars

\* the writer has returned an error, a reader holding a chunk is blocked at
\* its send on the full channel, and no goroutine can take a step
C20_Witness ==
    /\ ~ctxDone
    /\ \E r \in Readers : StuckReader(r) /\ rchunk[r] # NoChunk
    /\ exportErr \in {ErrCreate, ErrWriteHeader, ErrWriteContent}
    /\ ~ENABLED NextExportFaults

\* a reader has failed, the writer is blocked at its receive, and no goroutine
\* can take a step
C20_WriterStalled ==
    /\ ~ctxDone
    /\ StuckWriter
    /\ ~ENABLED NextExportFaults

(***************************************************************************)
(* Claim about the capacity of the chunk channel (SpecExport).             *)
(***************************************************************************)
\* reader r holds a chunk and is at `chunkC <- c` with a full buffer
BlockedOnFull(r) == rpc[r] = "send" /\ Len(chunksCh) = maxChunksInMem

\* C21: the buffer of the chunk channel never holds more than maxChunksInMem
\* chunks. A reader at its send with a full buffer keeps its chunk and stays
\* at the send in every step; the buffer shrinks only by a receive of the
\* writer; and a step that takes a ChunkMeta from the pool is a step of a
\* reader at p.Next(), which holds no chunk, never of a reader at its send.
C21_ChannelBounded ==
    /\ [](/\ Len(chunksCh) <= maxChunksInMem
          /\ \A r \in Readers : (rpc[r] = "send") = (rchunk[r] # NoChunk))
    /\ [][/\ \A r \in Readers :
               BlockedOnFull(r) =>
                 /\ rpc'[r] = "send"
                 /\ rchunk'[r] = rchunk[r]
                 /\ taken' # taken => \E q \in Readers \ {r} : rpc[q] = "next"
          /\ Len(chunksCh') < Len(chunksCh) =>
               (wpc = "recv" /\ chunksCh' = Tail(chunksCh))
          /\ taken' # taken =>
               \E q \in Readers :
                 rpc[q] = "next" /\ rchunk[q] = NoChunk /\ rpc'[q] # "next"
       ]_vars

\* the buffer is full and a reader is blocked at its send while the pool
\* still has a ChunkMeta, which another reader is about to pull
C21_Witness ==
    /\ PoolHasNext
    /\ \E r \in Readers :
         /\ BlockedOnFull(r)
         /\ \E q \in Readers \ {r} : rpc[q] = "next"

(***************************************************************************)
(* Claim about the shape of a metrics response (SpecMetrics).              *)
(***************************************************************************)
\* a cycle has fetched the value of the one threshold
FetchedOne == Len(answers) = 1 /\ Len(lastFetched) = 1

\* the body arrived with status 200 and was unmarshalled
GotResponse(a) == ~a.err /\ a.status = StatusOK /\ a.json

\* the value array has two elements, the second a string that is a number
IsSample(value) ==
    /\ Len(value) = 2
    /\ value[2].kind = "string"
    /\ \E n \in 1..Len(Numerals) : Numerals[n] = value[2].text

\* the number a numeral text stands for
NumberOf(text) == (CHOOSE n \in 1..Len(Numerals) : Numerals[n] = text) - 1

\* the shape the claim accepts: exactly one result entry
SingleSample(a) ==
    /\ GotResponse(a)
    /\ a.resp.Status = "success"
    /\ Len(a.resp.Result) = 1
    /\ IsSample(a.resp.Result[1].Value)

\* the shape with one result entry or more, the first one well formed
FirstSample(a) ==
    /\ GotResponse(a)
    /\ a.resp.Status = "success"
    /\ Len(a.resp.Result) >= 1
    /\ IsSample(a.resp.Result[1].Value)

\* the last cycle failed and counted as a WAIT cycle
FailedWaitCycle ==
    /\ lastFetched[1] = FetchErr
    /\ LastCycleFetchFailed
    /\ waitStatusCounter = prevCounter + 1
    /\ latestStatus = LastCycleOutcome
    /\ latestStatus \in {LoadStatusWait, LoadStatusTerminate}

\* C22 (as stated): a metrics response is accepted, with the value of its one entry, only
\* if its status is "success", it has exactly one result entry and that
\* entry's value array has two elements with a numeric string second; every
\* other answer makes the cycle a failed (WAIT) cycle.
C22_OnlySingleResultAccepted ==
    FetchedOne =>
      IF SingleSample(answers[1])
        THEN lastFetched[1] = NumberOf(answers[1].resp.Result[1].Value[2].text)
        ELSE FailedWaitCycle

\* C22 (as amended): a metrics response is accepted only if its status is
\* "success", it has at least one result entry and the first entry's value
\* array has two elements with a numeric string second; the value taken is
\* that of the first entry, whatever follows it. Every other answer, a
\* response without a result entry included, makes the cycle a failed (WAIT)
\* cycle.
C22_FirstResultDecides ==
    FetchedOne =>
      IF FirstSample(answers[1])
        THEN lastFetched[1] = NumberOf(answers[1].resp.Result[1].Value[2].text)
        ELSE FailedWaitCycle

\* a response with two result entries was accepted with the value of the first
C22_Witness ==
    /\ FetchedOne
    /\ GotResponse(answers[1])
    /\ Len(answers[1].resp.Result) = 2
    /\ lastFetched[1] # FetchErr
    /\ latestStatus = LoadStatusOK

=============================================================================
